---- MODULE Spec2Model ----
(***************************************************************************)
(* Model of the HTTP dispatch core of packages/server/src/http.ts:         *)
(* requestHandler, getQueryInput and getErrorResponseEnvelope.             *)
(*                                                                         *)
(* One request is followed from the call of requestHandler to its return   *)
(* and beyond (a timer that was never cleared can still fire afterwards).  *)
(* The handler is an async function: between two awaits it runs to         *)
(* completion, and the continuation of a settled promise runs as a         *)
(* microtask before any further macrotask (a timer callback, an event of   *)
(* the response).  The positions of pc listed in Busy are the ones in      *)
(* which such a continuation is pending; no timer or event fires there.    *)
(***************************************************************************)
EXTENDS Integers, Sequences, FiniteSets, TLC

VARIABLES
    req,            \* the request: method, body, query.input
    opts,           \* BaseOptions: subscriptions.timeout, teardown, transformer
    nodeEnv,        \* process.env.NODE_ENV
    resStatusCode,  \* res.statusCode as the transport left it ({} = undefined)
    pc,             \* position of requestHandler
    ctx,            \* the local `ctx` ({} until createContext has resolved)
    invokeLog,      \* calls of router.invoke: <<[target, input]>>
    output,         \* the local `output`
    caught,         \* the failure in flight to the enclosing catch ({} = none)
    closeListener,  \* onClose is registered on res for 'close'
    resClosed,      \* res has emitted 'close'
    timerPending,   \* the setTimeout of the subscription branch is pending
    timeout,        \* the local `timeout` ({} before it is computed)
    sub,            \* the subscription handle: "none", "active", "stopped", "destroyed"
    destroyLog,     \* reasons sub.destroy was called with, in order
    settledBy,      \* the signal that settled sub.onceOutputAndStop() ({} = none)
    acted,          \* the signals that caused a destroy request or an envelope
    resLog,         \* res.status(code).json(json) calls, in order
    teardownCalls,  \* number of calls of opts.teardown
    errorLog,       \* console.error calls
    escaped,        \* failures that left requestHandler ({} = none)
    routers,        \* the Router objects created so far; the index is the identity
    lastCall        \* the last call of a Router method and what it returned

vars == <<req, opts, nodeEnv, resStatusCode, pc, ctx, invokeLog, output, caught,
          closeListener, resClosed, timerPending, timeout, sub, destroyLog,
          settledBy, acted, resLog, teardownCalls, errorLog,
          escaped, routers, lastCall>>

\* the state of the request handler alone
httpVars == <<req, opts, nodeEnv, resStatusCode, pc, ctx, invokeLog, output,
              caught, closeListener, resClosed, timerPending, timeout, sub,
              destroyLog, settledBy, acted, resLog, teardownCalls, errorLog,
              escaped>>

\* no Router method has been called
NoCall ==
    [op |-> "none", self |-> 0, path |-> "", fn |-> "", child |-> 0,
     result |-> 0, value |-> ""]

----------------------------------------------------------------------------
(* JavaScript values, as far as the handler looks at them. *)

V(t, v) == [t |-> t, v |-> v]
Undefined == V("undefined", "")

\* JS truthiness, as used by `input ? ... : input` and `!queryInput`
Truthy(x) ==
    /\ x.t \notin {"undefined", "null"}
    /\ ~(x.t = "number" /\ x.v = "0")
    /\ ~(x.t = "string" /\ x.v = "")
    /\ ~(x.t = "boolean" /\ x.v = "false")

Ret(v) == [threw |-> FALSE, val |-> v]
Throw(e) == [threw |-> TRUE, err |-> e]

\* JSON.parse on the strings the model sends
JSONParse(s) ==
    CASE s = "1" -> Ret(V("number", "1"))
      [] s = "0" -> Ret(V("number", "0"))
      [] s = "{\"x\":1}" -> Ret(V("object", "x1"))
      [] OTHER -> Throw([cls |-> "SyntaxError", statusCode |-> {},
                         message |-> {<<"Unexpected end of JSON input">>},
                         stack |-> {"SyntaxError"}, reason |-> {}])

----------------------------------------------------------------------------
(* Failures.  Optional fields are sets: {} is undefined, {x} is x. *)

Err(cls, msg) ==
    [cls |-> cls, statusCode |-> {}, message |-> {msg}, stack |-> {cls},
     reason |-> {}]

HTTPError(statusCode, message) ==
    [cls |-> "HTTPError", statusCode |-> {statusCode}, message |-> {message},
     stack |-> {"HTTPError"}, reason |-> {}]

\* httpError.badRequest(message), httpError.notFound(message),
\* httpError.forbidden(): `message ?? default`
badRequest(message) ==
    HTTPError(400, IF message = {} THEN <<"Bad Request">>
                   ELSE CHOOSE m \in message : TRUE)
notFound(message) ==
    HTTPError(404, IF message = {} THEN <<"Not found">>
                   ELSE CHOOSE m \in message : TRUE)
forbidden == HTTPError(403, <<"Forbidden">>)

InputValidationError == Err("InputValidationError", <<"Invalid input">>)
RouteNotFoundError == Err("RouteNotFoundError", <<"Route not found">>)

SubscriptionDestroyError(reason) ==
    [cls |-> "SubscriptionDestroyError", statusCode |-> {},
     message |-> {<<"Subscription destroyed">>},
     stack |-> {"SubscriptionDestroyError"}, reason |-> {reason}]

\* what the injected collaborators (context factory, procedures, the
\* subscription, teardown) may throw: the two router failures, a structured
\* application failure, a plain Error, a structured object without a message
\* and a thrown value that is not an object at all
Failures ==
    { InputValidationError, RouteNotFoundError, forbidden,
      Err("Error", <<"boom">>),
      [cls |-> "Object", statusCode |-> {418}, message |-> {}, stack |-> {},
       reason |-> {}],
      [cls |-> "NonError", statusCode |-> {}, message |-> {}, stack |-> {},
       reason |-> {}] }

----------------------------------------------------------------------------
(* The injected transformer.  "default" is the identity pair of the        *)
(* parameter default; "custom" re-tags objects both ways; "throwing"       *)
(* rejects everything it is given.                                         *)

serialize(data) ==
    CASE opts.transformer = "default" -> Ret(data)
      [] opts.transformer = "custom" ->
            Ret(IF data.t = "object" THEN V("encoded", data.v) ELSE data)
      [] OTHER -> Throw(Err("Error", <<"cannot serialize">>))

deserialize(data) ==
    CASE opts.transformer = "default" -> Ret(data)
      [] opts.transformer = "custom" ->
            Ret(IF data.t = "object" THEN V("decoded", data.v) ELSE data)
      [] OTHER -> Throw(Err("Error", <<"cannot deserialize">>))

----------------------------------------------------------------------------
(* Pure functions of http.ts *)

\* without the RouteNotFoundError branch
getErrorResponseEnvelope_NoNotFound(_err) ==
    LET err == IF _err.cls = "InputValidationError"
                   THEN badRequest(_err.message)
               ELSE _err
        statusCode == IF err.statusCode # {}
                          THEN CHOOSE c \in err.statusCode : TRUE
                          ELSE 500
        message == IF err.message # {}
                       THEN CHOOSE m \in err.message : TRUE
                       ELSE <<"Internal Server Error">>
        stack == IF nodeEnv # "production" /\ err.stack # {}
                     THEN err.stack
                     ELSE {}
    IN  [ok |-> FALSE, statusCode |-> statusCode,
         error |-> [message |-> message, stack |-> stack]]

getErrorResponseEnvelope(_err) ==
    LET err == IF _err.cls = "InputValidationError"
                   THEN badRequest(_err.message)
               ELSE IF _err.cls = "RouteNotFoundError"
                   THEN notFound(_err.message)
               ELSE _err
        statusCode == IF err.statusCode # {}
                          THEN CHOOSE c \in err.statusCode : TRUE
                          ELSE 500
        message == IF err.message # {}
                       THEN CHOOSE m \in err.message : TRUE
                       ELSE <<"Internal Server Error">>
        stack == IF nodeEnv # "production" /\ err.stack # {}
                     THEN err.stack
                     ELSE {}
    IN  [ok |-> FALSE, statusCode |-> statusCode,
         error |-> [message |-> message, stack |-> stack]]

getQueryInput(r) ==
    LET queryInput == r.queryInput IN
    IF ~Truthy(queryInput) THEN Ret(Undefined)
    ELSE IF queryInput.t # "string"
        THEN Throw(badRequest({<<"Expected query.input to be a JSON string">>}))
    ELSE IF JSONParse(queryInput.v).threw
        THEN Throw(badRequest({<<"Expected query.input to be a JSON string">>}))
    ELSE JSONParse(queryInput.v)

deserializeInput(input) ==
    IF Truthy(input) THEN deserialize(input) ELSE Ret(input)

\* req.body.input: a TypeError when req.body is undefined
BodyInput(r) ==
    IF r.hasBody THEN Ret(r.bodyInput)
    ELSE Throw(Err("TypeError",
                   <<"Cannot read property 'input' of undefined">>))

\* const method = req.method ?? 'GET'
Method(r) == IF r.method = {} THEN "GET" ELSE CHOOSE m \in r.method : TRUE

Call(target, input) == [threw |-> FALSE, target |-> target, input |-> input]

\* a chain whose last branch treats any other verb as a query
Dispatch_UnknownAsGet(r) ==
    LET method == Method(r) IN
    IF method \in {"POST", "PATCH"} THEN
        IF BodyInput(r).threw THEN BodyInput(r)
        ELSE IF deserializeInput(BodyInput(r).val).threw
            THEN deserializeInput(BodyInput(r).val)
        ELSE Call(IF method = "POST" THEN "mutations" ELSE "subscriptions",
                  deserializeInput(BodyInput(r).val).val)
    ELSE
        IF getQueryInput(r).threw THEN getQueryInput(r)
        ELSE IF deserializeInput(getQueryInput(r).val).threw
            THEN deserializeInput(getQueryInput(r).val)
        ELSE Call("queries", deserializeInput(getQueryInput(r).val).val)

\* the if/else-if chain on `method` up to the call of router.invoke:
\* either the call that is made or the failure thrown before it
Dispatch(r) ==
    LET method == Method(r) IN
    IF method = "POST" THEN
        IF BodyInput(r).threw THEN BodyInput(r)
        ELSE IF deserializeInput(BodyInput(r).val).threw
            THEN deserializeInput(BodyInput(r).val)
        ELSE Call("mutations", deserializeInput(BodyInput(r).val).val)
    ELSE IF method = "GET" THEN
        IF getQueryInput(r).threw THEN getQueryInput(r)
        ELSE IF deserializeInput(getQueryInput(r).val).threw
            THEN deserializeInput(getQueryInput(r).val)
        ELSE Call("queries", deserializeInput(getQueryInput(r).val).val)
    ELSE IF method = "PATCH" THEN
        IF BodyInput(r).threw THEN BodyInput(r)
        ELSE IF deserializeInput(BodyInput(r).val).threw
            THEN deserializeInput(BodyInput(r).val)
        ELSE Call("subscriptions", deserializeInput(BodyInput(r).val).val)
    ELSE Throw(badRequest({<<"Unexpected request method ", method>>}))

DefaultTimeout == 9000

\* `||` where the code has `??`: a configured timeout of 0 is replaced too
SubscriptionTimeout_Or(o) ==
    IF o.timeout = {} \/ o.timeout = {0} THEN DefaultTimeout
    ELSE CHOOSE t \in o.timeout : TRUE

\* subscriptions?.timeout ?? 9000
SubscriptionTimeout(o) ==
    IF o.timeout = {} THEN DefaultTimeout ELSE CHOOSE t \in o.timeout : TRUE

\* the failure the inner catch rethrows
RaceFailure(err, t) ==
    IF err.cls = "SubscriptionDestroyError" /\ err.reason = {"timeout"}
        THEN HTTPError(408, <<"Subscription exceeded ", t,
                              "ms - please reconnect.">>)
        ELSE err

\* a success envelope that ignores the status already set on the response
SuccessEnvelope_Always200(data) ==
    [ok |-> TRUE, statusCode |-> 200, data |-> data]

\* the success envelope
SuccessEnvelope(data) ==
    [ok |-> TRUE,
     statusCode |-> IF resStatusCode = {} THEN 200
                    ELSE CHOOSE c \in resStatusCode : TRUE,
     data |-> data]

\* res.status(json.statusCode).json(json)
Send(json) == Append(resLog, [status |-> json.statusCode, json |-> json])

----------------------------------------------------------------------------
(* The requests, options and environments the model runs. *)

QueryInputs ==
    { Undefined, V("string", ""), V("array", "a"), V("string", "{"),
      V("string", "{\"x\":1}"), V("string", "0") }

BodyInputs == { Undefined, V("object", "in1"), V("number", "0") }

Requests ==
    { [method |-> m, hasBody |-> FALSE, bodyInput |-> Undefined,
       queryInput |-> q] : m \in {{}, {"GET"}}, q \in QueryInputs }
    \cup
    { [method |-> m, hasBody |-> TRUE, bodyInput |-> b,
       queryInput |-> Undefined] : m \in {{"POST"}, {"PATCH"}}, b \in BodyInputs }
    \cup
    { [method |-> m, hasBody |-> FALSE, bodyInput |-> Undefined,
       queryInput |-> Undefined] :
         m \in {{"POST"}, {"PATCH"}, {"DELETE"}, {"get"}} }

Options ==
    [timeout : {{}, {0}, {50}}, teardown : BOOLEAN,
     transformer : {"default", "custom", "throwing"}]

Outputs == { Undefined, V("object", "out1") }

Init ==
    /\ req \in Requests
    /\ opts \in Options
    /\ nodeEnv \in {"production", "development"}
    /\ resStatusCode \in {{}, {201}}
    /\ pc = "createContext"
    /\ ctx = {}
    /\ invokeLog = <<>>
    /\ output = Undefined
    /\ caught = {}
    /\ closeListener = FALSE
    /\ resClosed = FALSE
    /\ timerPending = FALSE
    /\ timeout = {}
    /\ sub = "none"
    /\ destroyLog = <<>>
    /\ settledBy = {}
    /\ acted = {}
    /\ resLog = <<>>
    /\ teardownCalls = 0
    /\ errorLog = <<>>
    /\ escaped = {}
    /\ routers = <<>>
    /\ lastCall = NoCall

\* a continuation of the handler is due: no macrotask runs before it
Busy ==
    pc \in {"dispatch", "subscribe", "raceResolved", "raceRejected",
            "respond", "catch", "teardownCall"}

----------------------------------------------------------------------------
(* requestHandler, one action per stretch between two awaits. *)

\* await createContext({ req, res }) settles
ContextSettles ==
    /\ pc = "createContext"
    /\ \/ /\ ctx' = {"ctx"}
          /\ pc' = "dispatch"
          /\ UNCHANGED caught
       \/ \E e \in Failures :
             /\ caught' = {e}
             /\ pc' = "catch"
             /\ UNCHANGED ctx
    /\ UNCHANGED <<routers, lastCall, req, opts, nodeEnv, resStatusCode, invokeLog, output,
                   closeListener, resClosed, timerPending, timeout, sub,
                   destroyLog, settledBy, acted, resLog, teardownCalls,
                   errorLog, escaped>>

\* the method chain up to router.invoke(...)
DispatchStep ==
    /\ pc = "dispatch"
    /\ IF Dispatch(req).threw
          THEN /\ caught' = {Dispatch(req).err}
               /\ pc' = "catch"
               /\ UNCHANGED invokeLog
          ELSE /\ invokeLog' = Append(invokeLog,
                                      [target |-> Dispatch(req).target,
                                       input |-> Dispatch(req).input])
               /\ pc' = "invoke"
               /\ UNCHANGED caught
    /\ UNCHANGED <<routers, lastCall, req, opts, ctx, nodeEnv, resStatusCode, output, closeListener,
                   resClosed, timerPending, timeout, sub, destroyLog,
                   settledBy, acted, resLog, teardownCalls, errorLog, escaped>>

\* await router.invoke(...) settles: the procedure's output, a subscription
\* handle for the subscriptions target, or a failure
InvokeSettles ==
    /\ pc = "invoke"
    /\ \/ /\ invokeLog[Len(invokeLog)].target # "subscriptions"
          /\ \E v \in Outputs : output' = v
          /\ pc' = "respond"
          /\ UNCHANGED <<caught, sub>>
       \/ /\ invokeLog[Len(invokeLog)].target = "subscriptions"
          /\ sub' = "active"
          /\ pc' = "subscribe"
          /\ UNCHANGED <<caught, output>>
       \/ \E e \in Failures :
             /\ caught' = {e}
             /\ pc' = "catch"
             /\ UNCHANGED <<output, sub>>
    /\ UNCHANGED <<routers, lastCall, req, opts, ctx, nodeEnv, resStatusCode, invokeLog,
                   closeListener, resClosed, timerPending, timeout,
                   destroyLog, settledBy, acted, resLog, teardownCalls,
                   errorLog, escaped>>

\* the subscription branch without its deadline timer
Subscribe_NoTimer ==
    /\ pc = "subscribe"
    /\ closeListener' = TRUE
    /\ timeout' = {SubscriptionTimeout(opts)}
    /\ pc' = "race"
    /\ UNCHANGED <<routers, lastCall, req, opts, ctx, nodeEnv, resStatusCode, invokeLog, output,
                   caught, resClosed, timerPending, sub, destroyLog,
                   settledBy, acted, resLog, teardownCalls, errorLog, escaped>>

\* res.once('close', onClose); setTimeout(...); sub.onceOutputAndStop()
Subscribe ==
    /\ pc = "subscribe"
    /\ closeListener' = TRUE
    /\ timeout' = {SubscriptionTimeout(opts)}
    /\ timerPending' = TRUE
    /\ pc' = "race"
    /\ UNCHANGED <<routers, lastCall, req, opts, ctx, nodeEnv, resStatusCode, invokeLog, output,
                   caught, resClosed, sub, destroyLog, settledBy, acted,
                   resLog, teardownCalls, errorLog, escaped>>

----------------------------------------------------------------------------
(* The subscription handle.  It has one terminal outcome: its output, its  *)
(* own failure, or the reason it was destroyed with; destroy after the     *)
(* terminal outcome changes nothing.                                       *)

\* sub.destroy(reason), requested by `signal`: the request is recorded; a
\* handle that is still active is destroyed, which rejects the promise of
\* onceOutputAndStop() with a SubscriptionDestroyError carrying the reason
destroy(reason, signal) ==
    /\ destroyLog' = Append(destroyLog, reason)
    /\ acted' = acted \cup {signal}
    /\ IF sub = "active"
          THEN /\ sub' = "destroyed"
               /\ settledBy' = {signal}
               /\ caught' = {SubscriptionDestroyError(reason)}
               /\ pc' = "raceRejected"
          ELSE UNCHANGED <<sub, settledBy, caught, pc>>

\* the handle produces its output: onceOutputAndStop() resolves
SubOutput ==
    /\ pc = "race"
    /\ sub = "active"
    /\ \E v \in Outputs : output' = v
    /\ sub' = "stopped"
    /\ settledBy' = {"outcome"}
    /\ pc' = "raceResolved"
    /\ UNCHANGED <<routers, lastCall, req, opts, ctx, nodeEnv, resStatusCode, invokeLog, caught,
                   closeListener, resClosed, timerPending, timeout,
                   destroyLog, acted, resLog, teardownCalls, errorLog,
                   escaped>>

\* the handle fails: onceOutputAndStop() rejects with the failure
SubError ==
    /\ pc = "race"
    /\ sub = "active"
    /\ \E e \in Failures : caught' = {e}
    /\ sub' = "stopped"
    /\ settledBy' = {"outcome"}
    /\ pc' = "raceRejected"
    /\ UNCHANGED <<routers, lastCall, req, opts, ctx, nodeEnv, resStatusCode, invokeLog, output,
                   closeListener, resClosed, timerPending, timeout,
                   destroyLog, acted, resLog, teardownCalls, errorLog,
                   escaped>>

----------------------------------------------------------------------------
(* The two callbacks of the subscription branch. *)

\* res emits 'close' (the client went away); onClose runs if it is
\* registered, and `once` removes it
CloseEvent ==
    /\ ~Busy
    /\ ~resClosed
    /\ resClosed' = TRUE
    /\ IF closeListener
          THEN /\ closeListener' = FALSE
               /\ destroy("closed", "close")
          ELSE UNCHANGED <<closeListener, destroyLog, acted, sub, settledBy,
                           caught, pc>>
    /\ UNCHANGED <<routers, lastCall, req, opts, ctx, nodeEnv, resStatusCode, invokeLog, output,
                   timerPending, timeout, resLog, teardownCalls, errorLog,
                   escaped>>

\* the deadline timer fires
TimerFire ==
    /\ ~Busy
    /\ timerPending
    /\ timerPending' = FALSE
    /\ destroy("timeout", "timer")
    /\ UNCHANGED <<routers, lastCall, req, opts, ctx, nodeEnv, resStatusCode, invokeLog, output,
                   closeListener, resClosed, timeout, resLog, teardownCalls,
                   errorLog, escaped>>

----------------------------------------------------------------------------
(* The rest of requestHandler. *)

\* the success path without res.off('close', onClose)
RaceResolved_NoOff ==
    /\ pc = "raceResolved"
    /\ pc' = "respond"
    /\ UNCHANGED <<routers, lastCall, req, opts, ctx, nodeEnv, resStatusCode, invokeLog, output,
                   caught, closeListener, resClosed, timerPending, timeout,
                   sub, destroyLog, settledBy, acted, resLog, teardownCalls,
                   errorLog, escaped>>

\* output = await sub.onceOutputAndStop() resolved: res.off('close', onClose)
RaceResolved ==
    /\ pc = "raceResolved"
    /\ closeListener' = FALSE
    /\ pc' = "respond"
    /\ UNCHANGED <<routers, lastCall, req, opts, ctx, nodeEnv, resStatusCode, invokeLog, output,
                   caught, resClosed, timerPending, timeout, sub, destroyLog,
                   settledBy, acted, resLog, teardownCalls, errorLog,
                   escaped>>

\* it rejected: the inner catch
RaceRejected ==
    /\ pc = "raceRejected"
    /\ closeListener' = FALSE
    /\ timerPending' = FALSE
    /\ caught' = {RaceFailure(CHOOSE e \in caught : TRUE,
                              CHOOSE t \in timeout : TRUE)}
    /\ pc' = "catch"
    /\ UNCHANGED <<routers, lastCall, req, opts, ctx, nodeEnv, resStatusCode, invokeLog, output,
                   resClosed, timeout, sub, destroyLog, settledBy, acted,
                   resLog, teardownCalls, errorLog, escaped>>

\* the success envelope is built and sent; transformer.serialize may throw
Respond ==
    /\ pc = "respond"
    /\ IF serialize(output).threw
          THEN /\ caught' = {serialize(output).err}
               /\ pc' = "catch"
               /\ UNCHANGED <<resLog, acted>>
          ELSE /\ resLog' = Send(SuccessEnvelope(serialize(output).val))
               /\ acted' = acted \cup settledBy
               /\ pc' = "teardownCall"
               /\ UNCHANGED caught
    /\ UNCHANGED <<routers, lastCall, req, opts, ctx, nodeEnv, resStatusCode, invokeLog, output,
                   closeListener, resClosed, timerPending, timeout, sub,
                   destroyLog, settledBy, teardownCalls, errorLog, escaped>>

\* the outer catch: the failure envelope is built and sent
Catch ==
    /\ pc = "catch"
    /\ resLog' = Send(getErrorResponseEnvelope(CHOOSE e \in caught : TRUE))
    /\ acted' = acted \cup settledBy
    /\ caught' = {}
    /\ pc' = "teardownCall"
    /\ UNCHANGED <<routers, lastCall, req, opts, ctx, nodeEnv, resStatusCode, invokeLog, output,
                   closeListener, resClosed, timerPending, timeout, sub,
                   destroyLog, settledBy, teardownCalls, errorLog, escaped>>

\* teardown only after a success envelope
TeardownCall_SkipOnFailure ==
    /\ pc = "teardownCall"
    /\ IF opts.teardown /\ resLog[Len(resLog)].json.ok
          THEN /\ teardownCalls' = teardownCalls + 1
               /\ pc' = "teardown"
          ELSE /\ pc' = "done"
               /\ UNCHANGED teardownCalls
    /\ UNCHANGED <<routers, lastCall, req, opts, ctx, nodeEnv, resStatusCode, invokeLog, output,
                   caught, closeListener, resClosed, timerPending, timeout,
                   sub, destroyLog, settledBy, acted, resLog, errorLog,
                   escaped>>

\* teardown && (await teardown())
TeardownCall ==
    /\ pc = "teardownCall"
    /\ IF opts.teardown
          THEN /\ teardownCalls' = teardownCalls + 1
               /\ pc' = "teardown"
          ELSE /\ pc' = "done"
               /\ UNCHANGED teardownCalls
    /\ UNCHANGED <<routers, lastCall, req, opts, ctx, nodeEnv, resStatusCode, invokeLog, output,
                   caught, closeListener, resClosed, timerPending, timeout,
                   sub, destroyLog, settledBy, acted, resLog, errorLog,
                   escaped>>

\* the failure of teardown is logged and thrown on
TeardownFailed_Rethrow(e) ==
    /\ errorLog' = Append(errorLog, <<"Teardown failed", e>>)
    /\ escaped' = {e}
    /\ UNCHANGED resLog

\* what the handler does with a failure of teardown: console.error
TeardownFailed(e) ==
    /\ errorLog' = Append(errorLog, <<"Teardown failed", e>>)
    /\ UNCHANGED <<escaped, resLog>>

\* teardown settles; the handler returns
TeardownSettles ==
    /\ pc = "teardown"
    /\ \/ UNCHANGED <<errorLog, escaped, resLog>>
       \/ \E e \in Failures : TeardownFailed(e)
    /\ pc' = "done"
    /\ UNCHANGED <<routers, lastCall, req, opts, ctx, nodeEnv, resStatusCode, invokeLog, output,
                   caught, closeListener, resClosed, timerPending, timeout,
                   sub, destroyLog, settledBy, acted, teardownCalls>>

Next ==
    \/ ContextSettles
    \/ DispatchStep
    \/ InvokeSettles
    \/ Subscribe
    \/ SubOutput
    \/ SubError
    \/ CloseEvent
    \/ TimerFire
    \/ RaceResolved
    \/ RaceRejected
    \/ Respond
    \/ Catch
    \/ TeardownCall
    \/ TeardownSettles

Spec == Init /\ [][Next]_vars

\* the scheduling of the event loop: a continuation that is due runs, and a
\* pending timer fires; nothing is assumed of the client, the handle, the
\* context factory, the procedures or teardown
Fairness ==
    /\ WF_vars(DispatchStep)
    /\ WF_vars(Subscribe)
    /\ WF_vars(RaceResolved)
    /\ WF_vars(RaceRejected)
    /\ WF_vars(Respond)
    /\ WF_vars(Catch)
    /\ WF_vars(TeardownCall)
    /\ WF_vars(TimerFire)

LiveSpec == Init /\ [][Next]_vars /\ Fairness

TypeOK ==
    /\ req \in Requests
    /\ opts \in Options
    /\ pc \in {"createContext", "dispatch", "invoke", "subscribe", "race",
               "raceResolved", "raceRejected", "respond", "catch",
               "teardownCall", "teardown", "done"}
    /\ sub \in {"none", "active", "stopped", "destroyed"}
    /\ (sub = "active" /\ ~Busy) => pc = "race"
    /\ Cardinality(caught) <= 1
    /\ settledBy \subseteq {"outcome", "close", "timer"}
    /\ acted \subseteq {"outcome", "close", "timer"}

----------------------------------------------------------------------------
(* Properties of the subscription lifecycle. *)

\* the handler is past the envelope step
Responded == pc \in {"teardownCall", "teardown", "done"}

\* the handler has left the race of a subscription dispatch
Resolved ==
    /\ sub # "none"
    /\ pc \in {"respond", "catch", "teardownCall", "teardown", "done"}

\* C1: in a subscription dispatch at most one of the three signals (handle
\* outcome, 'close' event, deadline timer) triggers side effects: destroy is
\* requested at most once and at most one envelope is emitted.
C1_AtMostOneSignalActs ==
    /\ Cardinality(acted) <= 1
    /\ Len(destroyLog) <= 1
    /\ Len(resLog) <= 1

\* the counting half of C1 alone: one destroy request at most, one envelope
\* at most
DestroyAndEnvelopeAtMostOnce ==
    /\ Len(destroyLog) <= 1
    /\ Len(resLog) <= 1

\* C2: there is no state of a subscription dispatch in which sub.destroy has
\* been called or an envelope emitted while the 'close' listener or the
\* deadline timer is still registered.
C2_LosersRemovedBeforeSideEffect ==
    (sub # "none" /\ (destroyLog # <<>> \/ resLog # <<>>))
        => (~closeListener /\ ~timerPending)

\* C3: once a subscription dispatch has resolved the deadline timer is no
\* longer pending, and after the handle produced its output
\* sub.destroy('timeout') is never called.
C3_TimerCancelledOnEveryExit ==
    /\ Resolved => ~timerPending
    /\ settledBy = {"outcome"} =>
          \A i \in 1..Len(destroyLog) : destroyLog[i] # "timeout"

\* C4: when the 'close' event wins the race no response envelope is emitted
\* for the request.
C4_NoEnvelopeAfterDisconnect ==
    settledBy = {"close"} => resLog = <<>>

\* the N of the timeout message: the configured subscriptions.timeout, 9000
\* when none is configured
ConfiguredTimeout ==
    IF opts.timeout = {} THEN 9000 ELSE CHOOSE t \in opts.timeout : TRUE

\* C5: when the deadline timer wins the race sub.destroy is invoked exactly
\* once, with reason 'timeout', and the request ends with the failure
\* envelope 408 `Subscription exceeded <N>ms - please reconnect.`.
C5_TimeoutEnvelope ==
    settledBy = {"timer"} =>
        /\ destroyLog = <<"timeout">>
        /\ Len(resLog) <= 1
        /\ Responded =>
              /\ Len(resLog) = 1
              /\ resLog[1].status = 408
              /\ ~resLog[1].json.ok
              /\ resLog[1].json.statusCode = 408
              /\ resLog[1].json.error.message =
                    <<"Subscription exceeded ", ConfiguredTimeout,
                      "ms - please reconnect.">>

\* the timer won, no timeout was configured, the client went away afterwards
\* and the handler has returned
C5_Witness ==
    /\ settledBy = {"timer"}
    /\ opts.timeout = {}
    /\ resClosed
    /\ pc = "done"

----------------------------------------------------------------------------
(* Properties of the handler as a whole. *)

\* C6: the teardown hook is invoked exactly once per request, after the
\* envelope has been emitted and never before it, on every branch, also
\* when teardown itself throws.
C6_TeardownOnceAfterEnvelope ==
    opts.teardown =>
        /\ teardownCalls <= 1
        /\ teardownCalls = 1 => Len(resLog) = 1
        /\ pc \in {"teardown", "done"} => teardownCalls = 1

\* the client disconnected during a subscription, the envelope went out, and
\* teardown was called once and threw
C6_Witness ==
    /\ opts.teardown
    /\ settledBy = {"close"}
    /\ pc = "done"
    /\ teardownCalls = 1
    /\ errorLog # <<>>

\* C7: requestHandler is the single catch boundary: a failure raised inside
\* it becomes exactly one Failure envelope and never leaves the handler; a
\* failure of teardown is logged only and neither leaves the handler nor
\* changes or re-emits the envelope.
C7_SingleCatchBoundary ==
    /\ [](/\ escaped = {}
          /\ Len(resLog) <= 1
          /\ Responded => (caught = {} /\ Len(resLog) = 1))
    /\ [][(caught # {} /\ caught' # caught) =>
            \/ caught' # {} /\ resLog' = resLog
            \/ /\ caught' = {}
               /\ Len(resLog') = Len(resLog) + 1
               /\ ~resLog'[Len(resLog')].json.ok]_vars
    /\ [][pc = "teardown" =>
            /\ resLog' = resLog
            /\ (pc' = "done" /\ errorLog' # errorLog) =>
                  Len(errorLog') = Len(errorLog) + 1]_vars

\* a failure was turned into the one Failure envelope, then teardown threw
\* and was logged
C7_Witness ==
    /\ pc = "done"
    /\ Len(resLog) = 1
    /\ ~resLog[1].json.ok
    /\ Len(errorLog) = 1
    /\ escaped = {}

Recognized == Method(req) \in {"GET", "POST", "PATCH"}

UnexpectedMethodSent ==
    /\ Len(resLog) = 1
    /\ resLog[1].status = 400
    /\ ~resLog[1].json.ok
    /\ resLog[1].json.statusCode = 400
    /\ resLog[1].json.error.message =
          <<"Unexpected request method ", Method(req)>>

Payloadless(r) ==
    IF Method(r) = "GET" THEN r.queryInput = Undefined
    ELSE ~r.hasBody \/ r.bodyInput = Undefined

\* C9: for a payload-less request with a recognized verb the dispatcher
\* does not fail on the missing payload: router.invoke is called with an
\* undefined input.
C9_PayloadlessIsNotAnError ==
    (Recognized /\ Payloadless(req) /\ ctx # {} /\ pc # "dispatch") =>
        /\ Len(invokeLog) = 1
        /\ invokeLog[1].input = Undefined

\* the part of C9 the code keeps: a missing input in a request that has
\* query and body objects
PayloadlessWithBodyIsNotAnError ==
    (Recognized /\ Payloadless(req) /\ ctx # {} /\ pc # "dispatch"
       /\ (Method(req) = "GET" \/ req.hasBody)) =>
        /\ Len(invokeLog) = 1
        /\ invokeLog[1].input = Undefined

Only(set) == CHOOSE x \in set : TRUE

\* the taxonomy as C10 states it
TaxonomyAsStated(e, env) ==
    /\ ~env.ok
    /\ CASE e.cls = "InputValidationError" -> env.statusCode = 400
         [] e.cls = "RouteNotFoundError" -> env.statusCode = 404
         [] e.statusCode # {} ->
              /\ env.statusCode = Only(e.statusCode)
              /\ e.message # {} => env.error.message = Only(e.message)
         [] OTHER ->
              /\ env.statusCode = 500
              /\ env.error.message = <<"Internal Server Error">>

\* the taxonomy with the message of a failure kept whenever it has one
TaxonomyKeepingMessage(e, env) ==
    /\ ~env.ok
    /\ CASE e.cls = "InputValidationError" -> env.statusCode = 400
         [] e.cls = "RouteNotFoundError" -> env.statusCode = 404
         [] e.statusCode # {} -> env.statusCode = Only(e.statusCode)
         [] OTHER -> env.statusCode = 500
    /\ env.error.message = IF e.message # {} THEN Only(e.message)
                           ELSE <<"Internal Server Error">>

\* C10 as stated: getErrorResponseEnvelope maps input-validation failures to
\* 400, route-not-found failures to 404, structured failures to their own
\* statusCode and message, and any other failure to 500 with the message
\* "Internal Server Error".
C10_TaxonomyAsStated ==
    [][pc = "catch" =>
         TaxonomyAsStated(Only(caught), resLog'[Len(resLog')].json)]_vars

\* C10 amended: the statusCode is 400, 404, the failure's own, or 500 for
\* any other failure; the message is the failure's own message whenever it
\* has one and "Internal Server Error" only when it has none.
C10_TaxonomyKeepingMessage ==
    [][pc = "catch" =>
         TaxonomyKeepingMessage(Only(caught), resLog'[Len(resLog')].json)]_vars

\* a failure without statusCode and message was answered with 500 and the
\* default message
C10_Witness ==
    /\ Len(resLog) = 1
    /\ ~resLog[1].json.ok
    /\ resLog[1].json.statusCode = 500
    /\ resLog[1].json.error.message = <<"Internal Server Error">>

----------------------------------------------------------------------------
(* Properties of the envelopes and of the scoped resources. *)

\* the failure is not a structured application failure: it has no statusCode
\* of its own and is not one of the two router failures
Unstructured(e) ==
    /\ e.statusCode = {}
    /\ e.cls \notin {"InputValidationError", "RouteNotFoundError"}

\* C11: under production configuration the Failure envelope of a failure
\* that is not a structured application failure carries the generic message
\* and no stack; the original message and stack appear only outside
\* production.
C11_GenericMessageInProduction ==
    [][(pc = "catch" /\ nodeEnv = "production" /\ Unstructured(Only(caught)))
         => /\ resLog'[Len(resLog')].json.error.message =
                  <<"Internal Server Error">>
            /\ resLog'[Len(resLog')].json.error.stack = {}]_vars

\* the half of C11 the code keeps: no stack in an envelope under production
NoStackInProduction ==
    nodeEnv = "production" =>
        \A i \in 1..Len(resLog) :
            ~resLog[i].json.ok => resLog[i].json.error.stack = {}

\* C12: for a query or mutation whose procedure completes with output v,
\* and whose transformer serializes v, exactly one Success envelope is
\* emitted with ok = true, data = the serialized v (v itself under the
\* default transformer) and statusCode = the status already assigned on the
\* response, otherwise 200.
C12_SuccessEnvelope ==
    /\ [](Len(resLog) <= 1)
    /\ [][(pc = "respond" /\ sub = "none" /\ ~serialize(output).threw) =>
            /\ Len(resLog') = 1
            /\ resLog'[1].json.ok
            /\ resLog'[1].json.data = serialize(output).val
            /\ opts.transformer = "default" => resLog'[1].json.data = output
            /\ resLog'[1].json.statusCode =
                  (IF resStatusCode = {} THEN 200 ELSE Only(resStatusCode))
            /\ resLog'[1].status = resLog'[1].json.statusCode]_vars

\* a mutation on a response whose status was already set to 201 was answered
\* with its output
C12_Witness ==
    /\ req.method = {"POST"}
    /\ resStatusCode = {201}
    /\ pc = "done"
    /\ Len(resLog) = 1
    /\ resLog[1].json.ok
    /\ resLog[1].json.statusCode = 201
    /\ resLog[1].json.data = V("object", "out1")

\* C18: the 'close' listener of a subscription dispatch is deregistered on
\* every exit path: once the request has resolved or the envelope was
\* emitted it is not registered, and no later 'close' event calls
\* sub.destroy('closed').
C18_CloseListenerRemoved ==
    /\ []((Resolved \/ resLog # <<>>) => ~closeListener)
    /\ [][Resolved =>
            \/ destroyLog' = destroyLog
            \/ destroyLog' = Append(destroyLog, "timeout")]_vars

\* the handle produced its output, the handler returned, and the client
\* went away afterwards without a destroy('closed')
C18_Witness ==
    /\ settledBy = {"outcome"}
    /\ pc = "done"
    /\ resClosed
    /\ ~closeListener
    /\ \A i \in 1..Len(destroyLog) : destroyLog[i] # "closed"

\* C19: a subscription dispatch that is in the race eventually resolves,
\* also when the handle never produces output and the client never
\* disconnects, and then the envelope step and the teardown step are
\* reached.
C19_SubscriptionResolves ==
    (pc = "race") ~> (Len(resLog) = 1 /\ pc \in {"teardown", "done"})

\* the deadline timer alone ended the race: no output, no disconnect, and
\* teardown was reached
C19_Witness ==
    /\ settledBy = {"timer"}
    /\ ~resClosed
    /\ opts.teardown
    /\ teardownCalls = 1
    /\ pc \in {"teardown", "done"}

----------------------------------------------------------------------------
(* The Router: a registry of endpoints.  `_endpoints` is a plain object;   *)
(* it is modelled as the sequence of its own properties in insertion       *)
(* order, each [key, fn], and its prototype is Object.prototype.           *)

MaxRouters == 3

\* some of the property names every plain object inherits
ProtoNames == {"toString", "constructor"}

Resolvers == {"f", "g"}
Paths == {"", "a", "p/a"}
Prefixes == {"p", "q"}
LookupPaths == {"a", "p/a", "missing", "toString"}

\* the endpoints a Router is constructed from at start
InitialEndpoints ==
    { <<>>,
      <<[key |-> "a", fn |-> "f"]>>,
      <<[key |-> "a", fn |-> "f"], [key |-> "p/a", fn |-> "g"]>> }

KeySet(e) == { e[i].key : i \in 1..Len(e) }
Own(e, k) == k \in KeySet(e)
IndexOf(e, k) == CHOOSE i \in 1..Len(e) : e[i].key = k

\* e[k]: the own property, else the inherited one, else undefined
Get(e, k) ==
    IF Own(e, k) THEN e[IndexOf(e, k)].fn
    ELSE IF k \in ProtoNames THEN "inherited"
    ELSE "undefined"

\* the spread in the other order: an existing entry wins
endpoint_KeepFirst(e, path, resolver) ==
    IF Own(e, path) THEN e
    ELSE Append(e, [key |-> path, fn |-> resolver])

\* endpoint(path, resolver): { ...this._endpoints, ...route }
endpoint(e, path, resolver) ==
    IF Own(e, path)
        THEN [e EXCEPT ![IndexOf(e, path)] = [key |-> path, fn |-> resolver]]
        ELSE Append(e, [key |-> path, fn |-> resolver])

RECURSIVE Reduce(_, _, _, _)
\* Object.keys(router._endpoints).reduce(..., r) from the i-th key on
Reduce(r, path, child, i) ==
    IF i > Len(child) THEN r
    ELSE Reduce(endpoint(r, path \o "/" \o child[i].key, child[i].fn),
                path, child, i + 1)

RECURSIVE Reduce_KeyFirst(_, _, _, _)
Reduce_KeyFirst(r, path, child, i) ==
    IF i > Len(child) THEN r
    ELSE Reduce_KeyFirst(endpoint(r, child[i].key \o "/" \o path, child[i].fn),
                         path, child, i + 1)

\* a reduce that starts from a fresh Router instead of `this`
compose_FromEmpty(e, path, child) == Reduce(<<>>, path, child, 1)

\* the template with key and prefix swapped
compose_KeyFirst(e, path, child) == Reduce_KeyFirst(e, path, child, 1)

\* compose(path, router)
compose(e, path, child) == Reduce(e, path, child, 1)

\* has(path): !!this._endpoints[path]
has(e, path) == Get(e, path) # "undefined"

\* handler(ctx)(path, ...args): this._endpoints[path](ctx, ...args) inside
\* an async function: the resolver's result, the result of an inherited
\* function, or a rejection with the TypeError of calling undefined
handler(e, path) ==
    CASE Get(e, path) = "undefined" -> "TypeError"
      [] Get(e, path) = "inherited" -> "inherited"
      [] OTHER -> Get(e, path)

RouterInit ==
    /\ \E e \in InitialEndpoints : routers = <<e>>
    /\ lastCall = NoCall
    /\ req = [method |-> {"GET"}, hasBody |-> FALSE, bodyInput |-> Undefined,
              queryInput |-> Undefined]
    /\ opts = [timeout |-> {}, teardown |-> FALSE, transformer |-> "default"]
    /\ nodeEnv = "production"
    /\ resStatusCode = {}
    /\ pc = "createContext"
    /\ ctx = {}
    /\ invokeLog = <<>>
    /\ output = Undefined
    /\ caught = {}
    /\ closeListener = FALSE
    /\ resClosed = FALSE
    /\ timerPending = FALSE
    /\ timeout = {}
    /\ sub = "none"
    /\ destroyLog = <<>>
    /\ settledBy = {}
    /\ acted = {}
    /\ resLog = <<>>
    /\ teardownCalls = 0
    /\ errorLog = <<>>
    /\ escaped = {}

\* an endpoint that changes the receiver's own object and returns `this`
Endpoint_InPlace ==
    /\ Len(routers) < MaxRouters
    /\ \E r \in 1..Len(routers), path \in Paths, f \in Resolvers :
          /\ routers' = [routers EXCEPT ![r] = endpoint(routers[r], path, f)]
          /\ lastCall' = [op |-> "endpoint", self |-> r, path |-> path,
                          fn |-> f, child |-> 0, result |-> r, value |-> ""]
    /\ UNCHANGED httpVars

\* r.endpoint(path, f): a new Router
Endpoint ==
    /\ Len(routers) < MaxRouters
    /\ \E r \in 1..Len(routers), path \in Paths, f \in Resolvers :
          /\ routers' = Append(routers, endpoint(routers[r], path, f))
          /\ lastCall' = [op |-> "endpoint", self |-> r, path |-> path,
                          fn |-> f, child |-> 0,
                          result |-> Len(routers) + 1, value |-> ""]
    /\ UNCHANGED httpVars

\* r.compose(path, c): the last Router of the reduce, which is `this` when
\* the child has no keys
Compose ==
    /\ Len(routers) < MaxRouters
    /\ \E r \in 1..Len(routers), c \in 1..Len(routers), path \in Prefixes :
          IF routers[c] = <<>>
              THEN /\ routers' = routers
                   /\ lastCall' = [op |-> "compose", self |-> r,
                                   path |-> path, fn |-> "", child |-> c,
                                   result |-> r, value |-> ""]
              ELSE /\ routers' = Append(routers,
                                        compose(routers[r], path, routers[c]))
                   /\ lastCall' = [op |-> "compose", self |-> r,
                                   path |-> path, fn |-> "", child |-> c,
                                   result |-> Len(routers) + 1, value |-> ""]
    /\ UNCHANGED httpVars

\* await r.handler(ctx)(path)
Handler ==
    /\ \E r \in 1..Len(routers), path \in LookupPaths :
          lastCall' = [op |-> "handler", self |-> r, path |-> path,
                       fn |-> "", child |-> 0, result |-> 0,
                       value |-> handler(routers[r], path)]
    /\ UNCHANGED routers
    /\ UNCHANGED httpVars

\* r.has(path)
Has ==
    /\ \E r \in 1..Len(routers), path \in LookupPaths :
          lastCall' = [op |-> "has", self |-> r, path |-> path,
                       fn |-> "", child |-> 0, result |-> 0,
                       value |-> IF has(routers[r], path) THEN "true"
                                 ELSE "false"]
    /\ UNCHANGED routers
    /\ UNCHANGED httpVars

RouterNext ==
    \/ Endpoint
    \/ Compose
    \/ Handler
    \/ Has

RouterSpec == RouterInit /\ [][RouterNext]_vars

RouterTypeOK ==
    /\ Len(routers) \in 1..MaxRouters
    /\ \A i \in 1..Len(routers) :
          \A j, k \in 1..Len(routers[i]) :
              routers[i][j].key = routers[i][k].key => j = k
    /\ lastCall.self \in 0..Len(routers)
    /\ lastCall.result \in 0..Len(routers)

----------------------------------------------------------------------------
(* Properties of the Router. *)

\* the step is a call of `op`
Called(op) == lastCall' # lastCall /\ lastCall'.op = op

Prefixed(p, A) == { p \o "/" \o A[i].key : i \in 1..Len(A) }

\* C13: after P.compose(p, A) every path k of A resolves under `p/k` to the
\* procedure A holds for k, and every entry of P whose key is not such a
\* `p/k` is still present with its procedure.
C13_ComposeResolvesPrefixed ==
    [][Called("compose") =>
         LET P == routers[lastCall'.self]
             A == routers[lastCall'.child]
             R == routers'[lastCall'.result]
             p == lastCall'.path
         IN  /\ \A i \in 1..Len(A) :
                   /\ Own(R, p \o "/" \o A[i].key)
                   /\ Get(R, p \o "/" \o A[i].key) = A[i].fn
             /\ \A j \in 1..Len(P) :
                   P[j].key \notin Prefixed(p, A) =>
                       /\ Own(R, P[j].key)
                       /\ Get(R, P[j].key) = P[j].fn]_vars

\* a non-empty child was composed into a parent that keeps entries of its own
C13_Witness ==
    /\ lastCall.op = "compose"
    /\ routers[lastCall.child] # <<>>
    /\ \E j \in 1..Len(routers[lastCall.self]) :
          routers[lastCall.self][j].key
              \notin Prefixed(lastCall.path, routers[lastCall.child])
    /\ Len(routers[lastCall.result]) > Len(routers[lastCall.child])

\* C14: composing A under p1 into an empty registry and the result under p2
\* gives the same registry as composing A under `p2/p1`; the same for three
\* nested prefixes.
C14_ComposeAssociative ==
    \* a lookup leaves the registries as they are: they were checked in the
    \* state the lookup started from
    lastCall.op \notin {"handler", "has"} =>
    \A a \in 1..Len(routers), b \in 1..Len(routers) :
        \A p1 \in Prefixes, p2 \in Prefixes, p3 \in Prefixes :
            LET A == routers[a]
                P == routers[b]
            IN  /\ compose(P, p2, compose(<<>>, p1, A))
                      = compose(P, p2 \o "/" \o p1, A)
                /\ compose(P, p3, compose(<<>>, p2, compose(<<>>, p1, A)))
                      = compose(P, p3 \o "/" \o p2 \o "/" \o p1, A)

\* a registry that came out of a composition was composed again
C14_Witness ==
    /\ lastCall.op = "compose"
    /\ \E i \in 1..Len(routers) : Own(routers[i], "q/p/a")

\* C15: endpoint('', resolver) fails: no registry holds an entry keyed by
\* the empty string.
C15_EmptyPathRejected ==
    \A i \in 1..Len(routers) : ~Own(routers[i], "")

\* C16: resolving a path that was never registered yields the structured
\* NotFound outcome and nothing else, and has(path) is true exactly for the
\* registered paths.
C16_UnregisteredIsNotFound ==
    /\ (lastCall.op = "handler"
          /\ ~Own(routers[lastCall.self], lastCall.path))
         => lastCall.value = "NotFound"
    /\ lastCall.op = "has" =>
         (lastCall.value = "true"
            <=> Own(routers[lastCall.self], lastCall.path))

\* what stays of C16: a registered path resolves to its procedure and has
\* is true for it
RegisteredResolves ==
    /\ (lastCall.op = "handler" /\ Own(routers[lastCall.self], lastCall.path))
         => lastCall.value = Get(routers[lastCall.self], lastCall.path)
    /\ (lastCall.op = "has" /\ Own(routers[lastCall.self], lastCall.path))
         => lastCall.value = "true"

\* every Router that exists keeps its endpoints
Frame ==
    /\ Len(routers') >= Len(routers)
    /\ \A i \in 1..Len(routers) : routers'[i] = routers[i]

\* C17 as stated: endpoint and compose each return a new registry and leave
\* every existing registry unchanged.
C17_AlwaysNewRegistry ==
    [][(Called("endpoint") \/ Called("compose")) =>
         /\ Frame
         /\ lastCall'.result = Len(routers) + 1
         /\ Len(routers') = Len(routers) + 1]_vars

\* C17 amended: endpoint returns a new registry; compose returns a new
\* registry when the child has entries and the receiver itself when the
\* child has none; every existing registry is left unchanged.
C17_RegistriesUnchanged ==
    [][(Called("endpoint") \/ Called("compose")) =>
         /\ Frame
         /\ IF lastCall'.op = "compose" /\ routers[lastCall'.child] = <<>>
               THEN /\ lastCall'.result = lastCall'.self
                    /\ routers' = routers
               ELSE /\ lastCall'.result = Len(routers) + 1
                    /\ Len(routers') = Len(routers) + 1]_vars

\* a registry was composed into itself and is still what it was
C17_Witness ==
    /\ lastCall.op = "compose"
    /\ lastCall.child = lastCall.self
    /\ lastCall.result # lastCall.self
    /\ routers[lastCall.self] \in InitialEndpoints
    /\ routers[lastCall.self] # <<>>

\* C20: registering under an existing key replaces the procedure of that
\* key, leaves every other entry alone and adds no key; composing adds
\* exactly the prefixed keys that were not there; a registry holds one
\* procedure per path.
C20_LastWriteWins ==
    /\ [](\A i \in 1..Len(routers) :
             Cardinality(KeySet(routers[i])) = Len(routers[i]))
    /\ [][Called("endpoint") =>
            LET P == routers[lastCall'.self]
                R == routers'[lastCall'.result]
                k == lastCall'.path
            IN  /\ Get(R, k) = lastCall'.fn
                /\ KeySet(R) = KeySet(P) \cup {k}
                /\ \A j \in 1..Len(P) :
                      P[j].key # k => Get(R, P[j].key) = P[j].fn]_vars
    /\ [][Called("compose") =>
            LET P == routers[lastCall'.self]
                A == routers[lastCall'.child]
                R == routers'[lastCall'.result]
                p == lastCall'.path
            IN  /\ KeySet(R) = KeySet(P) \cup Prefixed(p, A)
                /\ \A i \in 1..Len(A) :
                      Get(R, p \o "/" \o A[i].key) = A[i].fn]_vars

\* an endpoint was registered under a key that already held another
\* procedure
C20_Witness ==
    /\ lastCall.op = "endpoint"
    /\ Own(routers[lastCall.self], lastCall.path)
    /\ Get(routers[lastCall.self], lastCall.path) # lastCall.fn
    /\ Len(routers[lastCall.result]) = Len(routers[lastCall.self])

====
